---- MODULE Spec2Model ----
(***************************************************************************)
(* A model of run_bench_commits.py: the commit selection of run(), the     *)
(* per-commit loop (run_benchmark, upload_benchmark, the broad except),    *)
(* the cleanup and the final report, plus the commit_title derivation of   *)
(* get_commit_list / run_benchmark / upload_benchmark on message strings.  *)
(*                                                                         *)
(* The git history is linear: commit h (1..NumCommits) is the h-th oldest  *)
(* commit, and h also stands for its abbreviated hash.  0 stands for an    *)
(* option that was not given (None or the empty string).                   *)
(***************************************************************************)
EXTENDS Integers, Sequences, FiniteSets

NumCommits == 4
MaxLen == 3

None == 0
Hashes == 1..NumCommits
BenchTypes == <<"time", "tracemalloc">>

VARIABLES
    worktree_exists,      \* os.path.exists(worktree)
    start_commit,         \* --start-commit (None or a hash)
    end_commit,           \* --end-commit (None or a hash)
    es_url,               \* --es-url given
    delete_output_files,  \* --delete-output-files
    delete_repo,          \* --delete-repo
    randomize,            \* --randomize
    commits,              \* run(): commits
    i,                    \* run(): 1-based position of the loop in commits
    json_files,           \* run(): json_files
    failed,               \* run(): failed
    output_files,         \* run_benchmark(): output_files
    disk,                 \* the result.<type>.<sha>.json files written and not deleted
    printed,              \* the commits printed under "Failed commits:"
    exc,                  \* the exception that escaped run(), or "none"
    log,                  \* the external steps taken so far, in order
    pc,                   \* position of run()
    commit_message,       \* a commit record's commit_message
    commit_title,         \* a commit record's commit_title
    env_commit_message,   \* env["COMMIT_MESSAGE"] handed to the harness
    doc_commit_title,     \* "commit_title" of the uploaded document
    tpc                   \* position of the commit_title pipeline

optVars == <<worktree_exists, start_commit, end_commit, es_url,
             delete_output_files, delete_repo, randomize>>
runVars == <<commits, i, json_files, failed, output_files, disk, printed,
             exc, log, pc>>
titleVars == <<commit_message, commit_title, env_commit_message,
               doc_commit_title, tpc>>
vars == <<optVars, runVars, titleVars>>

Range(s) == {s[k] : k \in 1..Len(s)}

Reverse(s) == [k \in 1..Len(s) |-> s[Len(s) - k + 1]]

(***************************************************************************)
(* get_commit_list                                                         *)
(***************************************************************************)

\* git log --pretty=%h start..end: the commits reachable from end and not
\* from start, newest first.
GitLogRange(start, end) ==
    IF end > start THEN [k \in 1..(end - start) |-> end - k + 1] ELSE <<>>

CommitRecord(hash) == [kind |-> "dict", sha |-> hash]

GetCommitListNoReverse(start, end) ==
    LET commit_hashes == GitLogRange(start, end)
    IN  [k \in 1..Len(commit_hashes) |-> CommitRecord(commit_hashes[k])]

GetCommitList(start, end) ==
    LET commit_hashes == GitLogRange(start, end)
    IN  Reverse([k \in 1..Len(commit_hashes) |-> CommitRecord(commit_hashes[k])])

\* An element of commits that is a plain string (commits = [start_commit])
\* or None (commits = [None]).
StrCommit(hash) == [kind |-> "str", sha |-> hash]
NoneCommit == [kind |-> "None", sha |-> None]

\* commit["sha"] evaluates only on a dict; on a str or None it raises TypeError.
Subscriptable(commit) == commit.kind = "dict"

OutputFile(bench_type, commit) == [bench_type |-> bench_type, sha |-> commit.sha]

\* random.shuffle(s): every reordering of s.
Shuffles(s) ==
    LET n == Len(s)
        bij == {p \in [1..n -> 1..n] : \A a, b \in 1..n : p[a] = p[b] => a = b}
    IN  {[k \in 1..n |-> s[p[k]]] : p \in bij}

Event(step, commit, ok) == [step |-> step, commit |-> commit, ok |-> ok]

(***************************************************************************)
(* run()                                                                   *)
(***************************************************************************)

Init ==
    /\ worktree_exists \in BOOLEAN
    /\ start_commit \in {None} \cup Hashes
    /\ end_commit \in {None} \cup Hashes
    /\ es_url \in BOOLEAN
    /\ delete_output_files \in BOOLEAN
    /\ delete_repo \in BOOLEAN
    /\ randomize \in BOOLEAN
    /\ commits = <<>>
    /\ i = 0
    /\ json_files = <<>>
    /\ failed = <<>>
    /\ output_files = <<>>
    /\ disk = {}
    /\ printed = <<>>
    /\ exc = "none"
    /\ log = <<>>
    /\ pc = "start"
    /\ commit_message = <<>>
    /\ commit_title = <<>>
    /\ env_commit_message = <<>>
    /\ doc_commit_title = <<>>
    /\ tpc = "idle"

\* An exception leaves run().
Escape(name) ==
    /\ pc' = "crashed"
    /\ exc' = name

\* git clone (when --clone-url is given and the worktree is missing), git fetch.
CloneFetch ==
    /\ pc = "start"
    /\ \E clone_url \in BOOLEAN, clone_ok \in BOOLEAN, fetch_ok \in BOOLEAN :
         LET cloning == clone_url /\ ~worktree_exists
             present == worktree_exists \/ (cloning /\ clone_ok)
         IN  /\ worktree_exists' = present
             /\ IF (cloning /\ ~clone_ok) \/ ~present \/ ~fetch_ok
                THEN Escape("CalledProcessError")
                ELSE pc' = "select" /\ exc' = exc
    /\ UNCHANGED <<start_commit, end_commit, es_url, delete_output_files,
                   delete_repo, randomize>>
    /\ UNCHANGED <<commits, i, json_files, failed, output_files, disk,
                   printed, log>>
    /\ UNCHANGED titleVars

SelectCommits ==
    /\ pc = "select"
    /\ commits' = IF start_commit # None
                  THEN IF end_commit # None
                       THEN GetCommitList(start_commit, end_commit)
                       ELSE <<StrCommit(start_commit)>>
                  ELSE <<NoneCommit>>
    /\ json_files' = <<>>
    /\ failed' = <<>>
    /\ pc' = "shuffle"
    /\ UNCHANGED <<i, output_files, disk, printed, exc, log>>
    /\ UNCHANGED optVars
    /\ UNCHANGED titleVars

Shuffle ==
    /\ pc = "shuffle"
    /\ IF randomize
       THEN commits' \in Shuffles(commits)
       ELSE commits' = commits
    /\ pc' = "loop"
    /\ UNCHANGED <<i, json_files, failed, output_files, disk, printed, exc, log>>
    /\ UNCHANGED optVars
    /\ UNCHANGED titleVars

\* for i, commit in enumerate(commits): the next element, or the end of the loop.
LoopNextStopAtFailure ==
    /\ pc = "loop"
    /\ IF i < Len(commits) /\ failed = <<>>
       THEN i' = i + 1 /\ pc' = "run_benchmark"
       ELSE i' = i /\ pc' = "cleanup"
    /\ UNCHANGED <<commits, json_files, failed, output_files, disk, printed,
                   exc, log>>
    /\ UNCHANGED optVars
    /\ UNCHANGED titleVars

LoopNext ==
    /\ pc = "loop"
    /\ IF i < Len(commits)
       THEN i' = i + 1 /\ pc' = "run_benchmark"
       ELSE i' = i /\ pc' = "cleanup"
    /\ UNCHANGED <<commits, json_files, failed, output_files, disk, printed,
                   exc, log>>
    /\ UNCHANGED optVars
    /\ UNCHANGED titleVars

\* except Exception: failed.append(commit["sha"]).  The subscript is evaluated
\* inside the handler, so a str or None element raises again and leaves run().
Handler(commit) ==
    IF Subscriptable(commit)
    THEN /\ failed' = Append(failed, commit.sha)
         /\ pc' = "loop"
         /\ exc' = exc
    ELSE /\ failed' = failed
         /\ Escape("TypeError")

\* run_benchmark up to the harness loop: the checkout and the env set-up.
RunBenchmarkEnter ==
    /\ pc = "run_benchmark"
    /\ LET commit == commits[i]
           call == Event("run_benchmark", commit, TRUE)
       IN  CASE commit.kind = "str" ->
                  \* commit_info["sha"] raises before git is started
                  /\ log' = Append(log, call)
                  /\ output_files' = output_files
                  /\ Handler(commit)
             [] commit.kind = "None" ->
                  \* no checkout; commit_info["@timestamp"] raises
                  /\ log' = Append(log, call)
                  /\ output_files' = output_files
                  /\ Handler(commit)
             [] OTHER ->
                  \E ok \in BOOLEAN :
                    /\ log' = log \o <<call, Event("checkout", commit, ok)>>
                    /\ IF ok
                       THEN /\ output_files' = <<>>
                            /\ pc' = "time"
                            /\ UNCHANGED <<failed, exc>>
                       ELSE /\ output_files' = output_files
                            /\ Handler(commit)
    /\ UNCHANGED <<commits, i, json_files, disk, printed>>
    /\ UNCHANGED optVars
    /\ UNCHANGED titleVars

\* One pass of the harness loop of run_benchmark.  disk holds the files of
\* the harness runs that returned 0; what a failing harness leaves behind is
\* not recorded.
RunHarness(bench_type) ==
    /\ pc = bench_type
    /\ LET commit == commits[i]
           output_file == OutputFile(bench_type, commit)
       IN  \E ok \in BOOLEAN :
             /\ log' = Append(log, Event(bench_type, commit, ok))
             /\ IF ok
                THEN /\ disk' = disk \cup {output_file}
                     /\ output_files' = Append(output_files, output_file)
                     /\ pc' = IF bench_type = "time" THEN "tracemalloc" ELSE "upload"
                     /\ UNCHANGED <<failed, exc>>
                ELSE /\ disk' = disk
                     /\ output_files' = output_files
                     /\ Handler(commit)
    /\ UNCHANGED <<commits, i, json_files, printed>>
    /\ UNCHANGED optVars
    /\ UNCHANGED titleVars

\* Back in run(): the optional upload, then json_files.extend(files).
UploadAlways ==
    /\ pc = "upload"
    /\ LET commit == commits[i]
       IN  \E ok \in BOOLEAN :
             /\ log' = Append(log, Event("upload", commit, ok))
             /\ IF ok
                THEN /\ json_files' = json_files \o output_files
                     /\ pc' = "loop"
                     /\ UNCHANGED <<failed, exc>>
                ELSE /\ json_files' = json_files
                     /\ Handler(commit)
    /\ UNCHANGED <<commits, i, output_files, disk, printed>>
    /\ UNCHANGED optVars
    /\ UNCHANGED titleVars

UploadExtendFirst ==
    /\ pc = "upload"
    /\ LET commit == commits[i]
       IN  IF es_url
           THEN \E ok \in BOOLEAN :
                  /\ log' = Append(log, Event("upload", commit, ok))
                  /\ json_files' = json_files \o output_files
                  /\ IF ok
                     THEN /\ pc' = "loop"
                          /\ UNCHANGED <<failed, exc>>
                     ELSE Handler(commit)
           ELSE /\ log' = log
                /\ json_files' = json_files \o output_files
                /\ pc' = "loop"
                /\ UNCHANGED <<failed, exc>>
    /\ UNCHANGED <<commits, i, output_files, disk, printed>>
    /\ UNCHANGED optVars
    /\ UNCHANGED titleVars

Upload ==
    /\ pc = "upload"
    /\ LET commit == commits[i]
       IN  IF es_url
           THEN \E ok \in BOOLEAN :
                  /\ log' = Append(log, Event("upload", commit, ok))
                  /\ IF ok
                     THEN /\ json_files' = json_files \o output_files
                          /\ pc' = "loop"
                          /\ UNCHANGED <<failed, exc>>
                     ELSE /\ json_files' = json_files
                          /\ Handler(commit)
           ELSE /\ log' = log
                /\ json_files' = json_files \o output_files
                /\ pc' = "loop"
                /\ UNCHANGED <<failed, exc>>
    /\ UNCHANGED <<commits, i, output_files, disk, printed>>
    /\ UNCHANGED optVars
    /\ UNCHANGED titleVars

\* shutil.rmtree(worktree) and os.unlink of every file of json_files.
Cleanup ==
    /\ pc = "cleanup"
    /\ worktree_exists' = IF delete_repo THEN FALSE ELSE worktree_exists
    /\ disk' = IF delete_output_files THEN disk \ Range(json_files) ELSE disk
    /\ pc' = "report"
    /\ UNCHANGED <<start_commit, end_commit, es_url, delete_output_files,
                   delete_repo, randomize>>
    /\ UNCHANGED <<commits, i, json_files, failed, output_files, printed,
                   exc, log>>
    /\ UNCHANGED titleVars

\* if failed: print every failed commit.
PrintFailed ==
    /\ pc = "report"
    /\ printed' = failed
    /\ pc' = "done"
    /\ UNCHANGED <<commits, i, json_files, failed, output_files, disk, exc, log>>
    /\ UNCHANGED optVars
    /\ UNCHANGED titleVars

Next ==
    \/ CloneFetch
    \/ SelectCommits
    \/ Shuffle
    \/ LoopNext
    \/ RunBenchmarkEnter
    \/ RunHarness("time")
    \/ RunHarness("tracemalloc")
    \/ Upload
    \/ Cleanup
    \/ PrintFailed

Spec == Init /\ [][Next]_vars

(***************************************************************************)
(* commit_title: from the git log output to the harness environment and    *)
(* the uploaded document.  Strings are sequences of characters.            *)
(***************************************************************************)

Chars == {"a", "/", "n", "\n"}

\* git log -1 --pretty=%aI\t%H\t%B: the third field is the raw message,
\* ended by the newline git log puts after the entry.
Messages ==
    {body \o <<"\n">> : body \in UNION {[1..n -> Chars] : n \in 0..MaxLen}}

\* s.split(sep)[0]: the text before the first occurrence of sep, or all of s.
SplitFirst(s, sep) ==
    LET hits == {k \in 1..(Len(s) - Len(sep) + 1) :
                    SubSeq(s, k, k + Len(sep) - 1) = sep}
    IN  IF hits = {} THEN s
        ELSE SubSeq(s, 1, (CHOOSE k \in hits : \A m \in hits : k <= m) - 1)

\* get_commit_list: commit_message.split("/n")[0]
CommitTitle(message) == SplitFirst(message, <<"/", "n">>)

\* upload_benchmark: commit_info["commit_title"].split("\n")[0]
UploadedTitle(title) == SplitFirst(title, <<"\n">>)

\* One commit of the history, run() started with the default options.
TitleInit ==
    /\ worktree_exists = TRUE
    /\ start_commit = None
    /\ end_commit = None
    /\ es_url = FALSE
    /\ delete_output_files = FALSE
    /\ delete_repo = FALSE
    /\ randomize = TRUE
    /\ commits = <<>>
    /\ i = 0
    /\ json_files = <<>>
    /\ failed = <<>>
    /\ output_files = <<>>
    /\ disk = {}
    /\ printed = <<>>
    /\ exc = "none"
    /\ log = <<>>
    /\ pc = "start"
    /\ commit_message \in Messages
    /\ commit_title = <<>>
    /\ env_commit_message = <<>>
    /\ doc_commit_title = <<>>
    /\ tpc = "git_log"

\* get_commit_list builds the record of the commit.
BuildRecord ==
    /\ tpc = "git_log"
    /\ commit_title' = CommitTitle(commit_message)
    /\ tpc' = "record"
    /\ UNCHANGED <<commit_message, env_commit_message, doc_commit_title>>
    /\ UNCHANGED <<optVars, runVars>>

\* run_benchmark: env["COMMIT_MESSAGE"] = commit_info["commit_title"]
SetEnv ==
    /\ tpc = "record"
    /\ env_commit_message' = commit_title
    /\ tpc' = "env"
    /\ UNCHANGED <<commit_message, commit_title, doc_commit_title>>
    /\ UNCHANGED <<optVars, runVars>>

\* upload_benchmark: the document of the benchmark-py-commits index.
UploadDoc ==
    /\ tpc = "env"
    /\ doc_commit_title' = UploadedTitle(commit_title)
    /\ tpc' = "uploaded"
    /\ UNCHANGED <<commit_message, commit_title, env_commit_message>>
    /\ UNCHANGED <<optVars, runVars>>

TitleNext ==
    \/ BuildRecord
    \/ SetEnv
    \/ UploadDoc

TitleSpec == TitleInit /\ [][TitleNext]_vars

(***************************************************************************)
(* Properties                                                              *)
(***************************************************************************)

Shas(s) == {s[k].sha : k \in 1..Len(s)}

\* The loop of run() has been entered.
InLoop == i > 0

\* The loop of run() has ended normally.
LoopOver == pc \in {"cleanup", "report", "done"}

\* run() has been started with a start..end range.
RangeMode == start_commit # None /\ end_commit # None

IsCall(e) == e.step = "run_benchmark"

\* The elements of commits that run_benchmark was called on, in order.
Attempted ==
    LET calls == SelectSeq(log, IsCall)
    IN  [k \in 1..Len(calls) |-> calls[k].commit]

Attempts(commit) ==
    Cardinality({k \in 1..Len(log) : IsCall(log[k]) /\ log[k].commit = commit})

\* The external steps taken for a commit: checkout, harness runs, upload.
StepsOf(commit) ==
    LET mine(e) == ~IsCall(e) /\ e.commit = commit
    IN  SelectSeq(log, mine)

Rank(step) ==
    CASE step = "checkout" -> 1
      [] step = "time" -> 2
      [] step = "tracemalloc" -> 3
      [] step = "upload" -> 4

Succeeded(commit, step) ==
    \E k \in 1..Len(log) :
        log[k].commit = commit /\ log[k].step = step /\ log[k].ok

\* The event ends the iteration of its commit.
Terminal(e) ==
    \/ ~e.ok
    \/ e.step = "upload"
    \/ e.step = "tracemalloc" /\ ~es_url
    \/ IsCall(e) /\ ~Subscriptable(e.commit)

\* C1: whatever way the commit list was selected, an exception raised by
\* run_benchmark or upload_benchmark in the loop does not escape run(), and
\* the commit of every failed step is in the failed list.
C1_FailureIsRecorded ==
    /\ InLoop => pc # "crashed"
    /\ \A k \in 1..Len(log) :
         ~log[k].ok => log[k].commit.sha \in Range(failed)

\* C2: every commit of the selected list is attempted at most once at any
\* time and exactly once when the loop is over, and the steps of a commit
\* begin only after the steps of the commit before it have finished or failed.
C2_SequentialNoRetry ==
    /\ \A c \in Range(commits) : Attempts(c) <= 1
    /\ (LoopOver \/ (pc = "crashed" /\ InLoop)) =>
           \A c \in Range(commits) : Attempts(c) = 1
    /\ \A k \in 1..Len(log) :
         IF IsCall(log[k])
         THEN k > 1 => Terminal(log[k - 1])
         ELSE /\ k > 1
              /\ log[k - 1].commit = log[k].commit
              /\ ~Terminal(log[k - 1])

C2_Witness ==
    /\ pc = "done"
    /\ Len(commits) >= 2
    /\ Len(Attempted) = Len(commits)
    /\ failed # <<>>
    /\ json_files # <<>>

\* C3: the steps of a commit are in the order checkout, harness (time),
\* harness (tracemalloc), upload, each at most once; the second harness run
\* follows only a successful first one; the upload happens only with --es-url
\* and after both harness runs succeeded.
C3_StepOrder ==
    \A c \in Range(commits) :
        LET steps == StepsOf(c)
        IN  /\ \A k \in 1..(Len(steps) - 1) :
                  Rank(steps[k].step) < Rank(steps[k + 1].step)
            /\ \A k \in 1..Len(steps) :
                  /\ steps[k].step = "tracemalloc" => Succeeded(c, "time")
                  /\ steps[k].step = "upload" =>
                        /\ es_url
                        /\ Succeeded(c, "time")
                        /\ Succeeded(c, "tracemalloc")

C3_Witness ==
    /\ pc = "done"
    /\ \E c \in Range(commits) :
         /\ Len(StepsOf(c)) = 4
         /\ \A k \in 1..4 : StepsOf(c)[k].ok

\* C4: with --end-commit empty, run() has exactly one target, finishes
\* without an uncaught exception, and has run the harness twice on it, after
\* a checkout exactly when --start-commit was given.
C4_SingleTarget ==
    (end_commit = None /\ InLoop) =>
        /\ Len(commits) = 1
        /\ pc # "crashed"
        /\ (pc = "done" /\ \A k \in 1..Len(log) : log[k].ok) =>
              LET steps == StepsOf(commits[1])
                  names == [k \in 1..Len(steps) |-> steps[k].step]
              IN  IF start_commit # None
                  THEN SubSeq(names, 1, 3) = <<"checkout", "time", "tracemalloc">>
                  ELSE SubSeq(names, 1, 2) = <<"time", "tracemalloc">>

\* C5: for a start..end range with start not after end, the selected list
\* holds the start commit, the end commit and every commit between them,
\* and nothing else.
C5_RangeIsInclusive ==
    (RangeMode /\ start_commit <= end_commit
        /\ pc \notin {"start", "select", "crashed"}) =>
        Shas(commits) = start_commit..end_commit

\* C6: with --delete-output-files, no output file written by a successful
\* harness run of this run exists when run() ends, whatever became of the
\* later steps of its commit.
C6_OutputFilesDeleted ==
    (pc = "done" /\ delete_output_files) =>
        \A k \in 1..Len(log) :
            (log[k].step \in Range(BenchTypes) /\ log[k].ok) =>
                OutputFile(log[k].step, log[k].commit) \notin disk

\* C7: for a start..end range, --no-randomize attempts the commits oldest
\* first, and --randomize attempts a permutation of the same list.
C7_Order ==
    (RangeMode /\ LoopOver) =>
        LET listed == GetCommitList(start_commit, end_commit)
        IN  /\ Len(Attempted) = Len(listed)
            /\ Range(Attempted) = Range(listed)
            /\ \A a, b \in 1..Len(Attempted) :
                  Attempted[a] = Attempted[b] => a = b
            /\ ~randomize =>
                  \A a, b \in 1..Len(Attempted) :
                      a < b => Attempted[a].sha < Attempted[b].sha

C7_Witness ==
    /\ pc = "done"
    /\ RangeMode
    /\ ~randomize
    /\ Len(Attempted) >= 3

\* C8: at the end of every loop iteration over commit records, each commit
\* attempted so far is either in failed with none of its files in
\* json_files, or not in failed with exactly its two output files in
\* json_files; no file is in json_files twice.
C8_FailedOrFiles ==
    (pc = "loop" /\ InLoop /\ \A k \in 1..Len(commits) : Subscriptable(commits[k])) =>
        /\ \A k \in 1..i :
             LET c == commits[k]
                 files == {f \in Range(json_files) : f.sha = c.sha}
             IN  \/ c.sha \in Range(failed) /\ files = {}
                 \/ /\ c.sha \notin Range(failed)
                    /\ files = {OutputFile("time", c), OutputFile("tracemalloc", c)}
        /\ \A a, b \in 1..Len(json_files) :
             json_files[a] = json_files[b] => a = b

C8_Witness ==
    /\ pc = "loop"
    /\ i >= 2
    /\ failed # <<>>
    /\ json_files # <<>>
    /\ \E k \in 1..Len(log) : log[k].step = "upload" /\ ~log[k].ok

\* C9: commit_title is the first line of commit_message, and so are the
\* COMMIT_MESSAGE value of the harness and the uploaded commit_title.
C9_TitleIsFirstLine ==
    LET first_line == SplitFirst(commit_message, <<"\n">>)
    IN  /\ tpc \in {"record", "env", "uploaded"} => commit_title = first_line
        /\ tpc \in {"env", "uploaded"} => env_commit_message = first_line
        /\ tpc = "uploaded" => doc_commit_title = first_line

====
